---- MODULE Spec2Model ----
(***************************************************************************)
(* Model of src/src/util/parallel.py: the Multiprocessor pool controller   *)
(* (start / feed / close) and its worker processes (_worker_function),     *)
(* which communicate through a bounded input queue and an unbounded        *)
(* result-location queue and exchange records through shard files.         *)
(***************************************************************************)
EXTENDS Integers, Sequences, FiniteSets, TLC

(* ------------------------------ bounds --------------------------------- *)
\* the worker counts the constructor is given
WorkerCounts == {1, 2}
\* units the caller feeds over the whole run (also the supply of unit ids)
MaxUnits == 2
\* number of start() calls that fork a pool
MaxStarts == 2
\* len(output_file_names): the declared output channels
NumChannels == 2
\* depth of the input queue, Queue(10000) at parallel.py:150, scaled down
QueueBound == 1
\* a transformation returns fewer values than channels, as many, or more
MaxValues == NumChannels + 1
\* I/O failures the merge of close() can meet in one run
MaxFaults == 1
\* write_object() calls made on one writer
MaxWrites == 4
\* close() calls made on a writer in a row
MaxCloses == 2

\* buffer_size arguments: the default -1 (parallel.py:28) and a real buffer
BufferSizes == {-1, 2}

(* --------------------------- value domains ----------------------------- *)
Channels == 0 .. (NumChannels - 1)

\* Python's None on the input queue: the sentinel
None == [id |-> -1, res |-> "None", n |-> 0]

\* what the transformation does with a unit: raise, return None, return a
\* list of n per-channel values, or return a non-None object without len()
ListKinds == {<<"list", p>> : p \in {1, MaxValues}}

ScriptKinds == {<<"raise", 0>>, <<"none", 0>>} \cup ListKinds

\* what any other transformation may also return: an empty list, or a
\* value that is not None and has no len() (False, 0)
OtherKinds == {<<"list", 0>>, <<"unsized", 0>>}

Min(a, b) == IF a < b THEN a ELSE b

\* range(n) of Python as a set
Range(n) == 0 .. (n - 1)

VARIABLES
    workers,          \* self.workers
    buffer_size,      \* self.buffer_size
    logger,           \* self.logger is not None
    unsized,          \* the transformation may return an object without len()
    faults,           \* I/O failures the merge of close() may still meet
    state,            \* self._state: "None", or the dict as a record
    input_queue,      \* self._state["input_queue"]
    output_queue,     \* self._state["output_queue"]
    proc,             \* the worker processes: locals of _worker_function
    temp_files,       \* shard files on disk: path -> records
    out_files,        \* final output files: channel -> records
    ctl,              \* position of the controlling process
    idx,              \* loop index of close()
    pending,          \* argument of a feed() blocked in put()
    accumulated_records, \* local of close()
    ret,              \* outcome of the controller call that ended last
    gen,              \* number of pools forked so far (the time.time() stamp)
    nextId,           \* units created so far
    fed,              \* the units for which feed() returned (this pool)
    calls,            \* (worker, unit) pairs of process_function calls
    ncalls,           \* unit id -> number of process_function calls
    logged,           \* unit ids with an ERROR record in the log
    sentinels,        \* worker -> number of None values it took
    published,        \* worker -> number of output_queue.put calls
    written,          \* worker -> records in each shard file when published
    writer,           \* a JSONWriter object: its attributes
    json_args,        \* the arguments its constructor was given
    json_files,       \* the files of the output directory: path -> text
    wlog,             \* the write_object() and close() calls made so far
    source_files,     \* the paths given to a JSONReader and what they hold
    python,           \* the interpreter: StopIteration in a generator is an error
    reader,           \* a JSONReader object: its attributes
    rlog,             \* the calls made on the reader and what they gave
    all_topics_keyphrases,     \* topic -> its ranked list of keyphrases
    topics_assigned,           \* topics the assignment loop has gone through
    assigned_keyphrases,       \* local of infer_keyphrases
    assigned_topic_keyphrases  \* local of infer_keyphrases

vars == <<workers, buffer_size, logger, unsized, faults, state, input_queue,
          output_queue, proc, temp_files, out_files, ctl, idx, pending,
          accumulated_records, ret, gen, nextId, fed, calls, ncalls, logged,
          sentinels, published, written, writer, json_args, json_files, wlog,
          source_files, python, reader, rlog, all_topics_keyphrases,
          topics_assigned, assigned_keyphrases, assigned_topic_keyphrases>>

config == <<workers, buffer_size, logger, unsized>>
history == <<fed, calls, ncalls, logged, sentinels, published, written>>
\* the chunked writer and its files
writing == <<writer, json_args, json_files, wlog>>
\* the streaming reader and its files
reading == <<source_files, python, reader, rlog>>
\* the assignment of keyphrases to topics
assigning == <<all_topics_keyphrases, topics_assigned, assigned_keyphrases,
               assigned_topic_keyphrases>>
\* the components beside the pool
streams == <<writing, reading, assigning>>
\* the pool controller, its workers and their files
pool == <<config, faults, state, input_queue, output_queue, proc, temp_files,
          out_files, ctl, idx, pending, accumulated_records, ret, gen, nextId,
          history>>

(* ------------------------------ workers -------------------------------- *)
\* the value process_function returns, or the exception it raises
process_function(input_value) ==
    [kind |-> input_value.res,
     vals |-> [i \in 1 .. input_value.n |-> <<input_value.id, i - 1>>]]

\* worker_output_files: one shard path per channel, stamped with the fork
worker_output_files(worker_id, stamp) ==
    [k \in 1 .. NumChannels |-> <<stamp, worker_id, k - 1>>]

\* locals of _worker_function when the loop is entered (lines 51-67)
NewWorker(size) ==
    [pc |-> "get",
     input_value |-> None,
     sentinel_captured |-> FALSE,
     worker_buffers |-> [i \in Channels |-> <<>>],
     worker_buffers_size |-> [i \in Channels |-> size],
     bf_handles |-> [i \in Channels |-> "None"]]

\* a process that was never started
NoWorker == [NewWorker(0) EXCEPT !.pc = "none"]

\* mutant of BufferResult: the dumped values stay in the buffer
BufferResultKept(ch, result, size) ==
    LET buf == Append(ch.buf, result)
        left == ch.size - 1
    IN  IF left < 1
        THEN [buf |-> buf,
              size |-> size,
              handle |-> IF size > 0 THEN "None" ELSE "open",
              file |-> ch.file \o buf]
        ELSE [buf |-> buf, size |-> left, handle |-> ch.handle, file |-> ch.file]

\* lines 86-102 for one channel: buffer the value, dump the buffer when the
\* countdown falls below 1; ch = [buf, size, handle, file]
BufferResult(ch, result, size) ==
    LET buf == Append(ch.buf, result)
        left == ch.size - 1
    IN  IF left < 1
        THEN [buf |-> <<>>,
              size |-> size,
              handle |-> IF size > 0 THEN "None" ELSE "open",
              file |-> ch.file \o buf]
        ELSE [buf |-> buf, size |-> left, handle |-> ch.handle, file |-> ch.file]

\* mutant of FlushRemaining: the loop ends without the final dump
FlushRemainingSkipped(ch) == ch

\* lines 106-118 for one channel: dump what is still buffered, close the file
FlushRemaining(ch) ==
    IF Len(ch.buf) > 0
    THEN [buf |-> <<>>, size |-> ch.size, handle |-> "closed",
          file |-> ch.file \o ch.buf]
    ELSE [buf |-> ch.buf, size |-> ch.size,
          handle |-> IF ch.handle = "None" THEN "None" ELSE "closed",
          file |-> ch.file]

\* the channel i of worker w as BufferResult and FlushRemaining see it
ChannelOf(w, i) ==
    [buf |-> proc[w].worker_buffers[i],
     size |-> proc[w].worker_buffers_size[i],
     handle |-> proc[w].bf_handles[i],
     file |-> temp_files[<<gen, w, i>>]]

\* mutant of ResultFor: every channel is given the first value
ResultForFirst(output_value, i) == output_value.vals[1]

\* line 86: result = output_value[i], the value that goes to channel i
ResultFor(output_value, i) == output_value.vals[i + 1]

\* mutant of Taken: get() that reads the head and leaves it in the queue
TakenPeek(queue) == queue

\* line 69: what input_queue.get() leaves in the queue
Taken(queue) == Tail(queue)

\* mutant of AfterCall: no try/except around the transformation
AfterCallUncaught(kind) ==
    IF kind \in {"unsized", "raise"} THEN "dead" ELSE "get"

\* lines 76-85: where the worker stands after the transformation ran: an
\* exception is caught and logged (79-81), None is skipped (82), a list is
\* buffered, and len() of anything else raises outside the try
AfterCall(kind) == IF kind = "unsized" THEN "dead" ELSE "get"

\* lines 68-118: one round of the while loop. input_queue.get() takes the
\* head of the queue; None ends the loop and the buffers are dumped (lines
\* 105-118), any other value goes through the transformation and its values
\* are buffered. Between one get() and the next, or the final put(), the
\* worker touches its own locals and its own shard files only.
WorkerLoop(w) ==
    /\ proc[w].pc = "get"
    /\ Len(input_queue) > 0
    /\ input_queue' = Taken(input_queue)
    /\ LET input_value == Head(input_queue)
           output_value == process_function(input_value)
           n == Min(NumChannels, Len(output_value.vals))
           after == [i \in Channels |->
                       IF output_value.kind = "list" /\ i < n
                       THEN BufferResult(ChannelOf(w, i),
                                         ResultFor(output_value, i), buffer_size)
                       ELSE ChannelOf(w, i)]
           final == [i \in Channels |-> FlushRemaining(ChannelOf(w, i))]
       IN  IF input_value = None
           THEN /\ proc' = [proc EXCEPT
                      ![w].input_value = input_value,
                      ![w].sentinel_captured = TRUE,
                      ![w].pc = "put",
                      ![w].worker_buffers = [i \in Channels |-> final[i].buf],
                      ![w].bf_handles = [i \in Channels |-> final[i].handle]]
                /\ temp_files' = [f \in DOMAIN temp_files |->
                      IF f[1] = gen /\ f[2] = w THEN final[f[3]].file
                      ELSE temp_files[f]]
                /\ sentinels' = [sentinels EXCEPT ![w] = @ + 1]
                /\ UNCHANGED <<calls, ncalls, logged>>
           ELSE /\ proc' = [proc EXCEPT
                      ![w].input_value = input_value,
                      ![w].pc = AfterCall(output_value.kind),
                      ![w].worker_buffers = [i \in Channels |-> after[i].buf],
                      ![w].worker_buffers_size =
                          [i \in Channels |-> after[i].size],
                      ![w].bf_handles = [i \in Channels |-> after[i].handle]]
                /\ temp_files' = [f \in DOMAIN temp_files |->
                      IF f[1] = gen /\ f[2] = w THEN after[f[3]].file
                      ELSE temp_files[f]]
                /\ logged' = IF output_value.kind = "raise"
                             THEN logged \cup {input_value.id} ELSE logged
                /\ calls' = calls \cup {<<w, input_value>>}
                /\ ncalls' = [ncalls EXCEPT ![input_value.id] = @ + 1]
                /\ UNCHANGED sentinels
    /\ UNCHANGED <<config, streams, faults, state, output_queue, out_files, ctl, idx,
                   pending, accumulated_records, ret, gen, nextId, fed,
                   published, written>>

\* line 119: publish the shard paths; the process then ends
WorkerPut(w) ==
    /\ proc[w].pc = "put"
    /\ output_queue' = Append(output_queue, worker_output_files(w, gen))
    /\ proc' = [proc EXCEPT ![w].pc = "exit"]
    /\ published' = [published EXCEPT ![w] = @ + 1]
    /\ written' = [written EXCEPT
                     ![w] = [i \in Channels |-> Len(temp_files[<<gen, w, i>>])]]
    /\ UNCHANGED <<config, streams, faults, state, input_queue, temp_files, out_files,
                   ctl, idx, pending, accumulated_records, ret, gen, nextId,
                   fed, calls, ncalls, logged, sentinels>>

(* ----------------------------- controller ------------------------------ *)
\* self._state is None
StateNone ==
    [alive |-> FALSE, num_of_workers |-> 0, processes |-> <<>>,
     manager |-> FALSE, listener |-> FALSE]

\* how a controller call ended: the exception raised ("none": it returned)
Ret(op, exc, value) == [op |-> op, exc |-> exc, value |-> value]

\* lines 133-167: the dict start() builds and the processes it forks; without
\* a logger line 162 raises KeyError before the first Process is created
Forked(n, with_logger) ==
    [alive |-> TRUE,
     num_of_workers |-> n,
     processes |-> IF with_logger THEN [k \in 1 .. n |-> k - 1] ELSE <<>>,
     manager |-> TRUE,
     listener |-> with_logger]

\* mutant of NotStarted: start() without the state check
NotStartedUnchecked(st) == TRUE

\* line 132: start() forks only when self._state is None
NotStarted(st) == ~st.alive

\* start()
Start ==
    /\ ctl = "idle"
    /\ IF ~NotStarted(state)
       THEN /\ ret' = Ret("start", "ProcessError", <<>>)
            /\ UNCHANGED <<state, input_queue, output_queue, proc, temp_files,
                           gen, history>>
       ELSE /\ gen < MaxStarts
            /\ state' = Forked(workers, logger)
            /\ input_queue' = <<>>
            /\ output_queue' = <<>>
            /\ fed' = {}
            /\ calls' = {}
            /\ ncalls' = [u \in Range(MaxUnits) |-> 0]
            /\ logged' = {}
            /\ sentinels' = [w \in Range(workers) |-> 0]
            /\ published' = [w \in Range(workers) |-> 0]
            /\ written' = [w \in Range(workers) |-> [i \in Channels |-> 0]]
            /\ IF logger
               THEN /\ ret' = Ret("start", "none", <<>>)
                    /\ gen' = gen + 1
                    /\ proc' = [w \in Range(workers) |-> NewWorker(buffer_size)]
                    \* line 63: every worker creates its shard files empty
                    /\ temp_files' =
                         [f \in DOMAIN temp_files \cup
                                ({gen + 1} \X Range(workers) \X Channels) |->
                            IF f \in DOMAIN temp_files /\ f[1] # gen + 1
                            THEN temp_files[f] ELSE <<>>]
               ELSE /\ ret' = Ret("start", "KeyError", <<>>)
                    /\ UNCHANGED <<gen, proc, temp_files>>
    /\ UNCHANGED <<config, streams, faults, out_files, ctl, idx, pending,
                   accumulated_records, nextId>>

\* the units a caller can offer: a fresh id and what the transformation
\* does with it
Units ==
    {[id |-> u, res |-> k[1], n |-> k[2]] :
        u \in {nextId} \cap Range(MaxUnits),
        k \in IF unsized THEN ScriptKinds \cup OtherKinds ELSE ScriptKinds}

\* mutant of FeedError: feed() without the None check
FeedErrorAnyValue(st, input_value) ==
    IF st.alive THEN "none" ELSE "ProcessError"

\* lines 122-129: the exception feed() raises, "none" when it goes on to put
FeedError(st, input_value) ==
    IF st.alive
    THEN IF input_value # None THEN "none" ELSE "ValueError"
    ELSE "ProcessError"

\* mutant of HasRoom: a queue without maxsize
HasRoomUnbounded(queue) == TRUE

\* line 150: Queue(maxsize): put() goes through while the queue has room
HasRoom(queue) == Len(queue) < QueueBound

\* feed(input_value); put() blocks while the queue is full
Feed(input_value) ==
    /\ ctl = "idle"
    /\ IF FeedError(state, input_value) # "none"
       THEN /\ ret' = Ret("feed", FeedError(state, input_value), <<>>)
            /\ UNCHANGED <<input_queue, ctl, pending, nextId, fed>>
       ELSE /\ nextId' = nextId + 1
            /\ IF HasRoom(input_queue)
               THEN /\ input_queue' = Append(input_queue, input_value)
                    /\ fed' = fed \cup {input_value}
                    /\ ret' = Ret("feed", "none", <<>>)
                    /\ UNCHANGED <<ctl, pending>>
               ELSE /\ ctl' = "feed"
                    /\ pending' = input_value
                    /\ UNCHANGED <<input_queue, fed, ret>>
    /\ UNCHANGED <<config, streams, faults, state, output_queue, proc, temp_files,
                   out_files, idx, accumulated_records, gen, calls, ncalls,
                   logged, sentinels, published, written>>

\* a feed() blocked in put() goes on once the queue has room
FeedResume ==
    /\ ctl = "feed"
    /\ HasRoom(input_queue)
    /\ input_queue' = Append(input_queue, pending)
    /\ fed' = fed \cup {pending}
    /\ ret' = Ret("feed", "none", <<>>)
    /\ ctl' = "idle"
    /\ pending' = None
    /\ UNCHANGED <<config, streams, faults, state, output_queue, proc, temp_files,
                   out_files, idx, accumulated_records, gen, nextId, calls,
                   ncalls, logged, sentinels, published, written>>

\* mutant of SentinelCount: one None whatever the number of workers
SentinelCountOne(st) == 1

\* mutant of SentinelCount: one None too many
SentinelCountPlusOne(st) == st.num_of_workers + 1

\* line 176: the number of None values close() puts
SentinelCount(st) == st.num_of_workers

\* close(), lines 172-174 (and 210-211 when the controller is not started)
Close ==
    /\ ctl = "idle"
    /\ accumulated_records' = <<>>
    /\ IF state.alive
       THEN /\ state' = [state EXCEPT !.manager = FALSE]
            /\ ctl' = IF SentinelCount(state) > 0 THEN "close_put"
                      ELSE "close_join"
            /\ idx' = 0
            /\ UNCHANGED ret
       ELSE /\ state' = StateNone
            /\ ret' = Ret("close", "none", <<>>)
            /\ UNCHANGED <<ctl, idx>>
    /\ UNCHANGED <<config, streams, faults, input_queue, output_queue, proc, temp_files,
                   out_files, pending, gen, nextId, history>>

\* mutant of ClosePut: the None values go to the head of the queue, at once
ClosePutFirst ==
    /\ ctl = "close_put"
    /\ input_queue' = <<None>> \o input_queue
    /\ idx' = IF idx + 1 < SentinelCount(state) THEN idx + 1 ELSE 0
    /\ ctl' = IF idx + 1 < SentinelCount(state) THEN "close_put"
              ELSE "close_join"
    /\ UNCHANGED <<config, streams, faults, state, output_queue, proc, temp_files,
                   out_files, pending, accumulated_records, ret, gen, nextId,
                   history>>

\* lines 176-177: one None per worker, each put() blocking while full
ClosePut ==
    /\ ctl = "close_put"
    /\ HasRoom(input_queue)
    /\ input_queue' = Append(input_queue, None)
    /\ idx' = IF idx + 1 < SentinelCount(state) THEN idx + 1 ELSE 0
    /\ ctl' = IF idx + 1 < SentinelCount(state) THEN "close_put"
              ELSE "close_join"
    /\ UNCHANGED <<config, streams, faults, state, output_queue, proc, temp_files,
                   out_files, pending, accumulated_records, ret, gen, nextId,
                   history>>

\* mutant of CloseJoin: join() returns whether or not the process has ended
CloseJoinNoWait ==
    /\ ctl = "close_join"
    /\ idx < Len(state.processes)
    /\ idx' = idx + 1
    /\ UNCHANGED <<config, streams, faults, state, input_queue, output_queue, proc,
                   temp_files, out_files, ctl, pending, accumulated_records,
                   ret, gen, nextId, history>>

\* lines 180-181: join() returns once the process has ended
CloseJoin ==
    /\ ctl = "close_join"
    /\ idx < Len(state.processes)
    /\ proc[state.processes[idx + 1]].pc \in {"exit", "dead"}
    /\ idx' = idx + 1
    /\ UNCHANGED <<config, streams, faults, state, input_queue, output_queue, proc,
                   temp_files, out_files, ctl, pending, accumulated_records,
                   ret, gen, nextId, history>>

\* mutant of CloseTruncate: close() appends to the final files it finds
CloseTruncateSkipped ==
    /\ ctl = "close_join"
    /\ idx = Len(state.processes)
    /\ ctl' = "close_merge"
    /\ idx' = 0
    /\ UNCHANGED <<config, streams, faults, state, input_queue, output_queue,
                   proc, temp_files, out_files, pending, accumulated_records,
                   ret, gen, nextId, history>>

\* lines 182-186: stop the log listener, create the final files empty
CloseTruncate ==
    /\ ctl = "close_join"
    /\ idx = Len(state.processes)
    /\ out_files' = [i \in Channels |-> <<>>]
    /\ ctl' = "close_merge"
    /\ idx' = 0
    /\ UNCHANGED <<config, streams, faults, state, input_queue, output_queue, proc,
                   temp_files, pending, accumulated_records, ret, gen, nextId,
                   history>>

\* mutant of Accumulate: the list grows up to the last channel that has a
\* record only
AccumulateCounted(acc, counts, n) ==
    LET last == CHOOSE m \in 0 .. n :
                   /\ m = 0 \/ counts[m - 1] > 0
                   /\ \A j \in m + 1 .. n : counts[j - 1] = 0
    IN  [j \in 1 .. (IF Len(acc) > last THEN Len(acc) ELSE last) |->
            (IF j <= Len(acc) THEN acc[j] ELSE 0) +
            (IF j <= n THEN counts[j - 1] ELSE 0)]

\* mutant of Accumulate: the count of a file replaces the sum so far
AccumulateLast(acc, counts, n) ==
    [j \in 1 .. (IF Len(acc) > n THEN Len(acc) ELSE n) |->
        IF j <= n THEN counts[j - 1] ELSE acc[j]]

\* lines 205-209: accumulated_records after the files 0 .. n-1 of one
\* worker were counted, the list growing on IndexError
Accumulate(acc, counts, n) ==
    [j \in 1 .. (IF Len(acc) > n THEN Len(acc) ELSE n) |->
        (IF j <= Len(acc) THEN acc[j] ELSE 0) +
        (IF j <= n THEN counts[j - 1] ELSE 0)]

\* mutant of Merged: the records of a shard file are carried last first
MergedReversed(shard) == [k \in 1 .. Len(shard) |-> shard[Len(shard) + 1 - k]]

\* mutant of Merged: the last record of a shard file is taken for the end
MergedShort(shard) ==
    IF Len(shard) = 0 THEN shard ELSE SubSeq(shard, 1, Len(shard) - 1)

\* lines 192-203: the records load() reads from a shard file up to EOFError,
\* each dumped into the final file and counted
Merged(shard) == shard

\* no failure while the files of a worker are merged
NoStop == <<-1, 0>>

\* lines 198-202: where load() or dump() can raise while the n shard files
\* are merged: <<i, j>> is the file of channel i after j records were carried
MergeStops(output_files, n) ==
    {NoStop} \cup
    (IF faults > 0
     THEN {k \in Range(n) \X Range(MaxUnits) :
              k[2] < Len(temp_files[output_files[k[1] + 1]])}
     ELSE {})

\* lines 188-209: one round of the while loop, the shard files of one
\* worker. An exception of load() or dump() is not caught: the files merged
\* before it are gone, the file it hit stays, and close() ends without
\* resetting self._state.
CloseMerge ==
    /\ ctl = "close_merge"
    /\ Len(output_queue) > 0
    /\ output_queue' = Tail(output_queue)
    /\ \E stop \in MergeStops(Head(output_queue),
                             Min(NumChannels, Len(Head(output_queue)))) :
        LET output_files == Head(output_queue)
            n == Min(NumChannels, Len(output_files))
            \* the files 0 .. done-1 are merged in full
            done == IF stop = NoStop THEN n ELSE stop[1]
        IN  /\ out_files' = [i \in Channels |->
                  IF i < done
                  THEN out_files[i] \o Merged(temp_files[output_files[i + 1]])
                  ELSE IF stop # NoStop /\ i = stop[1]
                  THEN out_files[i] \o
                       SubSeq(temp_files[output_files[i + 1]], 1, stop[2])
                  ELSE out_files[i]]
            \* line 204: os.remove
            /\ temp_files' =
                  [f \in DOMAIN temp_files \ {output_files[k] : k \in 1 .. done} |->
                     temp_files[f]]
            /\ IF stop = NoStop
               THEN /\ accumulated_records' =
                         Accumulate(accumulated_records,
                                    [i \in Range(n) |->
                                       Len(Merged(temp_files[output_files[i + 1]]))],
                                    n)
                    /\ UNCHANGED <<faults, ctl, ret>>
               ELSE /\ accumulated_records' = <<>>
                    /\ faults' = faults - 1
                    /\ ctl' = "idle"
                    /\ ret' = Ret("close", "Exception", <<>>)
    /\ UNCHANGED <<config, streams, state, input_queue, proc, idx, pending, gen, nextId,
                   history>>

\* mutant of CloseReturn: close() returns without self._state = None
CloseReturnKeepsState ==
    /\ ctl = "close_merge"
    /\ Len(output_queue) = 0
    /\ ret' = Ret("close", "none", accumulated_records)
    /\ ctl' = "idle"
    /\ UNCHANGED <<config, streams, faults, state, input_queue, output_queue, proc,
                   temp_files, out_files, idx, pending, accumulated_records,
                   gen, nextId, history>>

\* lines 187, 210-211: the queue is empty; reset and return the counts
CloseReturn ==
    /\ ctl = "close_merge"
    /\ Len(output_queue) = 0
    /\ state' = StateNone
    /\ ret' = Ret("close", "none", accumulated_records)
    /\ ctl' = "idle"
    /\ UNCHANGED <<config, streams, faults, input_queue, output_queue, proc, temp_files,
                   out_files, idx, pending, accumulated_records, gen, nextId,
                   history>>

(* --------------------------- chunked writer ---------------------------- *)
\* Model of JSONWriter in src/src/core/file/writers.py. A file is the
\* sequence of the pieces of text written to it: the opening "[\n", a
\* serialized object, the separator ",\n", the closing "\n]".
ArrayOpen == <<"[">>
ArrayClose == <<"]">>
Separator == <<",">>

\* line 181-182: the text of the k-th object given to write_object()
JsonString(k) == <<"obj", k>>

\* the constructor arguments tried: max_file_objects_amount (0 stands for
\* None as well: both are falsy at line 119) and buffer_size
CapArguments == {-1, 0, 1, 2, 3}
BufferArguments == {-1, 0, 1, 2, 3}

\* self.current_file_path is None
NoPath == <<>>

\* mutant of FilePath: every file is named as a part
FilePathPart(max_file_objects_amount, current_file_index) ==
    <<"prefix", "part", current_file_index, "extension">>

\* lines 135-147: the name of the file opened next
FilePath(max_file_objects_amount, current_file_index) ==
    IF max_file_objects_amount > 0
    THEN <<"prefix", "part", current_file_index, "extension">>
    ELSE <<"prefix", "extension">>

\* mutant of ValidBufferSize: the constructor without its assertion
ValidBufferSizeAny(size) == TRUE

\* line 125: assert buffer_size > 0
ValidBufferSize(size) == size > 0

\* lines 105-126: the object the constructor leaves, exc = "AssertionError"
\* when it raised and the caller got no object
JSONWriter(max_file_objects_amount, size) ==
    [exc |-> IF ValidBufferSize(size) THEN "none" ELSE "AssertionError",
     created_files |-> <<>>,
     current_file_path |-> NoPath,
     current_file_handle |-> FALSE,
     current_file_index |-> 1,
     current_file_objects |-> 0,
     buffer |-> <<>>,
     max_file_objects_amount |->
         IF max_file_objects_amount = 0 THEN -1 ELSE max_file_objects_amount,
     buffer_size |-> size]

\* seq[:n] and seq[n:] of Python
Take(seq, n) ==
    IF n >= 0 THEN SubSeq(seq, 1, Min(n, Len(seq)))
    ELSE SubSeq(seq, 1, IF Len(seq) + n > 0 THEN Len(seq) + n ELSE 0)

Drop(seq, n) ==
    IF n >= 0 THEN SubSeq(seq, Min(n, Len(seq)) + 1, Len(seq))
    ELSE SubSeq(seq, (IF Len(seq) + n > 0 THEN Len(seq) + n ELSE 0) + 1,
                Len(seq))

RECURSIVE Join(_)
\* line 165: ",\n".join(texts)
Join(texts) ==
    IF Len(texts) = 0 THEN <<>>
    ELSE IF Len(texts) = 1 THEN <<texts[1]>>
    ELSE <<texts[1], Separator>> \o Join(Tail(texts))

\* mutant of NumOfObjects: a flush writes buffer_size objects whatever the
\* room left in the file
NumOfObjectsUncapped(w) == w.buffer_size

\* lines 161-164: how many buffered objects one flush writes
NumOfObjects(w) ==
    IF w.max_file_objects_amount > 0
    THEN Min(w.buffer_size, w.max_file_objects_amount - w.current_file_objects)
    ELSE w.buffer_size

\* lines 131-159: open the next file when none is open; x = [w, files]
OpenFile(x) ==
    IF x.w.current_file_path = NoPath
    THEN LET path == FilePath(x.w.max_file_objects_amount,
                              x.w.current_file_index)
         IN  [w |-> [x.w EXCEPT
                       !.created_files = Append(@, path),
                       !.current_file_path = path,
                       !.current_file_handle = TRUE,
                       !.current_file_objects = 0],
              \* open(path, "w") creates the file or empties it
              files |-> [f \in DOMAIN x.files \cup {path} |->
                           IF f = path THEN <<ArrayOpen>> ELSE x.files[f]]]
    ELSE x

\* mutant of WriteBuffer: no separator between two flushes into one file
WriteBufferNoSeparator(x) ==
    LET num_of_objects == NumOfObjects(x.w)
    IN  [w |-> [x.w EXCEPT
                  !.current_file_objects = @ + num_of_objects,
                  !.buffer = Drop(@, num_of_objects)],
         files |-> [x.files EXCEPT ![x.w.current_file_path] =
                      @ \o Join(Take(x.w.buffer, num_of_objects))]]

\* lines 161-171: write the head of the buffer to the open file
WriteBuffer(x) ==
    LET num_of_objects == NumOfObjects(x.w)
        output_json == Join(Take(x.w.buffer, num_of_objects))
        text == IF x.w.current_file_objects # 0
                THEN <<Separator>> \o output_json ELSE output_json
    IN  [w |-> [x.w EXCEPT
                  !.current_file_objects = @ + num_of_objects,
                  !.buffer = Drop(@, num_of_objects)],
         files |-> [x.files EXCEPT ![x.w.current_file_path] = @ \o text]]

\* mutant of EndFile: the part index stays where it is
EndFileSameIndex(x) ==
    [w |-> [x.w EXCEPT
              !.current_file_handle = FALSE,
              !.current_file_path = NoPath],
     files |-> [x.files EXCEPT ![x.w.current_file_path] = Append(@, ArrayClose)]]

\* lines 174-178 and 192-196: end the array, close the file, move on to the
\* next index
EndFile(x) ==
    [w |-> [x.w EXCEPT
              !.current_file_handle = FALSE,
              !.current_file_path = NoPath,
              !.current_file_index = @ + 1],
     files |-> [x.files EXCEPT ![x.w.current_file_path] = Append(@, ArrayClose)]]

\* lines 128-178: _flush_buffer()
FlushBuffer(x) ==
    LET y == WriteBuffer(OpenFile(x))
    IN  IF /\ y.w.max_file_objects_amount > 0
           /\ y.w.current_file_objects >= y.w.max_file_objects_amount
        THEN EndFile(y) ELSE y

RECURSIVE FlushAll(_)
\* lines 189-190: while len(self.buffer) > 0: self._flush_buffer()
FlushAll(x) == IF Len(x.w.buffer) > 0 THEN FlushAll(FlushBuffer(x)) ELSE x

\* the buffer x = [w, files] after one more object was appended
Buffered(x, json_file_string) ==
    [w |-> [x.w EXCEPT !.buffer = Append(@, json_file_string)],
     files |-> x.files]

\* mutant of ReachedThreshold: the flush comes one object late
ReachedThresholdLate(w) == Len(w.buffer) > w.buffer_size

\* line 185: the buffer has reached the flush threshold
ReachedThreshold(w) == Len(w.buffer) >= w.buffer_size

\* lines 180-186: write_object(), of the next object
WriteObject ==
    /\ writer.exc = "none"
    /\ wlog.exited = "no"
    /\ wlog.writes < MaxWrites
    /\ LET x == Buffered([w |-> writer, files |-> json_files],
                         JsonString(wlog.writes + 1))
           y == IF ReachedThreshold(x.w) THEN FlushBuffer(x) ELSE x
       IN  /\ writer' = y.w
           /\ json_files' = y.files
    /\ wlog' = [wlog EXCEPT !.writes = @ + 1,
                            !.closes = 0,
                            !.reopened = @ \/ wlog.closes > 0]
    /\ UNCHANGED <<json_args, pool, reading, assigning>>

\* mutant of Closed: the array is ended whether or not a file is open
ClosedUnguarded(x) == EndFile(FlushAll(x))

\* lines 189-196: x = [w, files] after close()
Closed(x) ==
    LET y == FlushAll(x)
    IN  IF y.w.current_file_handle THEN EndFile(y) ELSE y

\* lines 188-196: close()
WriterClose ==
    /\ writer.exc = "none"
    /\ wlog.exited = "no"
    /\ wlog.closes < MaxCloses
    /\ LET z == Closed([w |-> writer, files |-> json_files])
       IN  /\ writer' = z.w
           /\ json_files' = z.files
    /\ wlog' = [wlog EXCEPT !.closes = @ + 1]
    /\ UNCHANGED <<json_args, pool, reading, assigning>>

\* mutant of RemoveCreated: __exit__ leaves the files where they are
RemoveCreatedNone(files, created) == [files |-> files, exc |-> "none"]

RECURSIVE RemoveCreated(_, _)
\* lines 69-73: os.remove of every entry of created_files, in order; an
\* exception of os.remove (the file is not there) is raised again
RemoveCreated(files, created) ==
    IF Len(created) = 0 THEN [files |-> files, exc |-> "none"]
    ELSE IF Head(created) \notin DOMAIN files
         THEN [files |-> files, exc |-> "FileNotFoundError"]
         ELSE RemoveCreated([f \in DOMAIN files \ {Head(created)} |-> files[f]],
                            Tail(created))

\* lines 62-73: __exit__() of a with-block around the writer; error says
\* whether the block raised
WriterExit(error) ==
    /\ writer.exc = "none"
    /\ wlog.exited = "no"
    /\ IF ~error
       THEN LET z == Closed([w |-> writer, files |-> json_files])
            IN  /\ writer' = z.w
                /\ json_files' = z.files
                /\ wlog' = [wlog EXCEPT !.closes = @ + 1, !.exited = "closed"]
       ELSE LET r == RemoveCreated(json_files, writer.created_files)
            IN  /\ json_files' = r.files
                /\ wlog' = [wlog EXCEPT !.exited = "error", !.exc = r.exc]
                /\ UNCHANGED writer
    /\ UNCHANGED <<json_args, pool, reading, assigning>>

(* --------------------------- streaming reader -------------------------- *)
\* the paths given to the constructor, the objects one file holds at most,
\* the passes one reader starts, the size of a batch
MaxPaths == 3
MaxObjects == 2
MaxIters == 2
MaxBatch == 2

\* the paths, in the order the constructor was given them
Paths == 1 .. MaxPaths

\* the calls made in one pass: a full pass, its end and one call more
MaxCalls == MaxPaths * MaxObjects + 2

\* the interpreters that run the scripts (compare.py:47 has an f-string):
\* from 3.7 on a StopIteration raised inside a generator is a RuntimeError
Pythons == {"3.6", "3.7"}

\* self.file_obj is None
NoFile == 0

\* the k-th item of the root array of the file at path p
Item(p, k) == <<p, k>>

\* no value: the call raised
NoValue == <<>>

\* a path with nothing behind it
Missing == [exists |-> FALSE, objects |-> 0, error_at |-> 0, then |-> "none"]

\* a file whose root array holds n items and that is read without an error
Readable(n) == [exists |-> TRUE, objects |-> n, error_at |-> 0, then |-> "none"]

\* a file of n items of which the e-th cannot be read (e = n + 1: the end of
\* the array cannot); then is what the parser that raised does when it is
\* asked again: it is finished, or it raises again
Failing(n, e, then) ==
    [exists |-> TRUE, objects |-> n, error_at |-> e, then |-> then]

\* self.json_parser was never assigned
NoParser == [path |-> 0, pos |-> 0, status |-> "unset"]

\* lines 73 and 89: ijson.items(file_obj, "item") over the file at path p
Items(p) == [path |-> p, pos |-> 0, status |-> "ok"]

\* line 80: next(self.json_parser): the parser afterwards, what it raised
\* and the item it gave
ParserNext(parser, files) ==
    LET f == files[parser.path]
    IN  IF parser.status = "finished"
        THEN [parser |-> parser, raised |-> "StopIteration", value |-> NoValue]
        ELSE IF parser.status = "failing" \/ f.error_at = parser.pos + 1
        THEN [parser |-> [parser EXCEPT !.status = f.then],
              raised |-> "OSError", value |-> NoValue]
        ELSE IF parser.pos < f.objects
        THEN [parser |-> [parser EXCEPT !.pos = @ + 1],
              raised |-> "none", value |-> Item(parser.path, parser.pos + 1)]
        ELSE [parser |-> [parser EXCEPT !.status = "finished"],
              raised |-> "StopIteration", value |-> NoValue]

\* mutant of ExistingPaths: every given path is kept
ExistingPathsAll(files) == [p \in Paths |-> p]

\* lines 55-56: the given paths that exist, in the given order
ExistingPaths(files) ==
    SelectSeq([p \in Paths |-> p], LAMBDA p : files[p].exists)

\* lines 54-65: the object the constructor leaves, exc = "AssertionError"
\* when it raised and the caller got no object
JSONReader(files) ==
    [exc |-> IF Len(ExistingPaths(files)) > 0 THEN "none" ELSE "AssertionError",
     file_paths |-> ExistingPaths(files),
     file_obj |-> NoFile,
     file_index |-> 0,
     object_index |-> 0,
     json_parser |-> NoParser]

\* lines 72-73 and 88-89: open the file at file_index (counted from 0) and
\* parse it
Opened(r) ==
    LET p == r.file_paths[r.file_index + 1]
    IN  [r EXCEPT !.file_obj = p, !.json_parser = Items(p)]

\* mutant of Iterated: the pass goes on where the reader is
IteratedInPlace(r) ==
    IF r.file_obj = NoFile
    THEN Opened([r EXCEPT !.file_index = 0, !.object_index = 0])
    ELSE r

\* lines 67-74: __iter__()
Iterated(r) == Opened([r EXCEPT !.file_index = 0, !.object_index = 0])

\* what a call gave: x = [r, errors] and the exception or the value
Gave(r, errors, raised, value) ==
    [r |-> r, errors |-> errors, raised |-> raised, value |-> value]

\* mutant of EndOfFiles: the pass ends with the first file
EndOfFilesAfterFirst(r) == r.file_index >= 1

\* line 85: the file that ended was the last one
EndOfFiles(r) == r.file_index = Len(r.file_paths)

RECURSIVE NextObject(_, _)
\* lines 76-100: __next__() of the reader x.r, x.errors records logged so far
NextObject(x, files) ==
    IF x.r.json_parser.status = "unset"
    THEN Gave(x.r, x.errors, "AttributeError", NoValue)
    ELSE
    LET n == ParserNext(x.r.json_parser, files)
        r == [x.r EXCEPT !.json_parser = n.parser]
    IN  CASE n.raised = "none" ->
               Gave([r EXCEPT !.object_index = @ + 1], x.errors, "none", n.value)
          [] n.raised = "StopIteration" ->
               LET moved == [r EXCEPT !.file_index = @ + 1]
                   closed == [moved EXCEPT !.file_obj = NoFile]
               IN  IF r.file_obj = NoFile
                   THEN Gave(moved, x.errors, "AttributeError", NoValue)
                   ELSE IF EndOfFiles(closed)
                   THEN Gave(closed, x.errors, "StopIteration", NoValue)
                   ELSE IF closed.file_index > Len(closed.file_paths)
                   THEN Gave(closed, x.errors, "IndexError", NoValue)
                   ELSE NextObject([r |-> Opened(closed), errors |-> x.errors],
                                   files)
          [] n.raised = "OSError" ->
               LET moved == [r EXCEPT !.file_index = @ + 1]
               IN  IF n.parser.status = "failing"
                   \* the parser raises whenever it is asked: the loop of
                   \* lines 78-97 does not end
                   THEN Gave(moved, x.errors + 1, "never returns", NoValue)
                   ELSE NextObject([r |-> moved, errors |-> x.errors + 1],
                                   files)

\* what the call that ended last was and gave; from is the number of objects
\* the pass had yielded when it was made, over says that the pass had ended
Outcome(op, n, from, over, raised, value) ==
    [op |-> op, n |-> n, from |-> from, over |-> over, raised |-> raised,
     value |-> value]

\* no call was made on the reader
NoReads ==
    [iters |-> 0, calls |-> 0, yielded |-> <<>>, ended |-> FALSE,
     abandoned |-> FALSE, left |-> 0, prev |-> <<>>, passed |-> FALSE,
     errors |-> 0, ret |-> Outcome("init", 0, 0, FALSE, "none", NoValue)]

\* the log when __iter__() starts a pass: what the pass before it yielded
\* is kept if it was a full one, and how far it went if it was not
Restarted(log) ==
    [log EXCEPT !.iters = @ + 1,
                !.calls = 0,
                !.yielded = <<>>,
                !.ended = FALSE,
                !.abandoned = log.iters > 0 /\ ~log.ended,
                !.left = Len(log.yielded),
                !.prev = IF log.ended THEN log.yielded ELSE @,
                !.passed = @ \/ log.ended]

\* the log after a call op that went through __next__() and gave out
Called(log, op, n, out, values, raised, value) ==
    [log EXCEPT !.calls = @ + 1,
                !.yielded = @ \o values,
                !.ended = @ \/ out.raised = "StopIteration",
                !.errors = out.errors,
                !.ret = Outcome(op, n, Len(log.yielded), log.ended, raised,
                                value)]

\* a call can be made: there is a reader and no call is stuck
Callable ==
    /\ reader.exc = "none"
    /\ rlog.ret.raised # "never returns"

\* lines 67-74: iter(reader), as a for-loop makes it
ReaderIter ==
    /\ Callable
    /\ rlog.iters < MaxIters
    /\ reader' = Iterated(reader)
    /\ rlog' = [Restarted(rlog) EXCEPT
                  !.ret = Outcome("iter", 0, 0, FALSE, "none", NoValue)]
    /\ UNCHANGED <<source_files, python, pool, writing, assigning>>

\* lines 76-100: next(reader), as a for-loop makes it
ReaderNext ==
    /\ Callable
    /\ rlog.calls < MaxCalls
    /\ LET out == NextObject([r |-> reader, errors |-> rlog.errors],
                             source_files)
       IN  /\ reader' = out.r
           /\ rlog' = Called(rlog, "next", 0, out,
                             IF out.raised = "none" THEN <<out.value>> ELSE <<>>,
                             out.raised, out.value)
    /\ UNCHANGED <<source_files, python, pool, writing, assigning>>

\* mutant of Unopened: read() never starts a pass
UnopenedNever(r) == FALSE

\* line 46: self.file_obj is None
Unopened(r) == r.file_obj = NoFile

\* lines 45-49: read()
ReaderRead ==
    /\ Callable
    /\ rlog.calls < MaxCalls
    /\ Unopened(reader) => rlog.iters < MaxIters
    /\ LET fresh == Unopened(reader)
           log == IF fresh THEN Restarted(rlog) ELSE rlog
           out == NextObject([r |-> IF fresh THEN Iterated(reader) ELSE reader,
                              errors |-> rlog.errors], source_files)
       IN  /\ reader' = out.r
           /\ rlog' = Called(log, "read", 0, out,
                             IF out.raised = "none" THEN <<out.value>> ELSE <<>>,
                             out.raised, out.value)
    /\ UNCHANGED <<source_files, python, pool, writing, assigning>>

RECURSIVE Batch(_, _, _, _)
\* line 52: tuple(next(self) for _ in range(batch_size)): the reader after
\* it, the objects __next__() gave and what the call raised
Batch(x, files, n, taken) ==
    IF n <= 0
    THEN [out |-> Gave(x.r, x.errors, "none", NoValue), taken |-> taken,
          raised |-> "none"]
    ELSE LET out == NextObject(x, files)
         IN  IF out.raised = "none"
             THEN Batch([r |-> out.r, errors |-> out.errors], files, n - 1,
                        Append(taken, out.value))
             ELSE [out |-> out, taken |-> taken,
                   raised |-> IF out.raised # "StopIteration" THEN out.raised
                              \* the generator expression raised StopIteration:
                              \* the end of the tuple, or an error
                              ELSE IF python = "3.6" THEN "none"
                              ELSE "RuntimeError"]

\* lines 51-52: read_batch(batch_size)
ReadBatch(batch_size) ==
    /\ Callable
    /\ rlog.calls < MaxCalls
    /\ LET b == Batch([r |-> reader, errors |-> rlog.errors], source_files,
                      batch_size, <<>>)
       IN  /\ reader' = b.out.r
           /\ rlog' = Called(rlog, "read_batch", batch_size, b.out, b.taken,
                             b.raised,
                             IF b.raised = "none" THEN b.taken ELSE NoValue)
    /\ UNCHANGED <<source_files, python, pool, writing, assigning>>

(* ------------------------- keyphrase assignment ------------------------ *)
\* the topics, the keyphrases there are and the length of a ranked list
MaxTopics == 2
MaxKeyphrases == 3
MaxRanked == 2

\* the topics, in the order of the dictionary all_topics_keyphrases
Topics == 1 .. MaxTopics
Keyphrases == 1 .. MaxKeyphrases

\* the ranked lists a topic can have: up to MaxRanked different keyphrases,
\* best first (the keyphrase of each (keyphrase, score) pair)
RankedLists ==
    UNION {{l \in [1 .. n -> Keyphrases] :
              \A i, j \in 1 .. n : i # j => l[i] # l[j]} : n \in 0 .. MaxRanked}

\* lines 302-303: ", ".join(topic_keyphrase_list) of the i best keyphrases; the
\* joined string is the sequence of its parts
ConstructedKeyphrase(list, i) == SubSeq(list, 1, i)

\* lines 301-308: the first i for which the joined keyphrase is not assigned
\* yet, 0 if the loop ends without one
FirstUnassigned(list, assigned) ==
    LET free == {i \in 1 .. Len(list) :
                   ConstructedKeyphrase(list, i) \notin assigned}
    IN  IF free = {} THEN 0 ELSE CHOOSE i \in free : \A j \in free : i <= j

\* lines 298-308: one turn of the loop over the topics
AssignKeyphrase ==
    /\ topics_assigned < Len(all_topics_keyphrases)
    /\ LET topic == topics_assigned + 1
           list == all_topics_keyphrases[topic]
           i == FirstUnassigned(list, assigned_keyphrases)
       IN  /\ topics_assigned' = topic
           /\ IF i = 0
              THEN UNCHANGED <<assigned_keyphrases, assigned_topic_keyphrases>>
              ELSE /\ assigned_topic_keyphrases' =
                        Append(assigned_topic_keyphrases,
                               [topic |-> topic,
                                keyphrase |-> ConstructedKeyphrase(list, i)])
                   /\ assigned_keyphrases' =
                        assigned_keyphrases \cup {ConstructedKeyphrase(list, i)}
    /\ UNCHANGED <<all_topics_keyphrases, pool, writing, reading>>

(* --------------------------- specification ----------------------------- *)
\* a record left in a final file by an earlier run
Stale(i) == <<-1, i>>

\* the controller after __init__ (lines 27-41) and before the first start()
Unstarted ==
    /\ state = StateNone
    /\ input_queue = <<>>
    /\ output_queue = <<>>
    /\ proc = [w \in Range(workers) |-> NoWorker]
    /\ temp_files = [f \in {} |-> <<>>]
    /\ out_files = [i \in Channels |-> <<Stale(i)>>]
    /\ ctl = "idle"
    /\ idx = 0
    /\ pending = None
    /\ accumulated_records = <<>>
    /\ ret = Ret("init", "none", <<>>)
    /\ gen = 0
    /\ nextId = 0
    /\ fed = {}
    /\ calls = {}
    /\ ncalls = [u \in Range(MaxUnits) |-> 0]
    /\ logged = {}
    /\ sentinels = [w \in Range(workers) |-> 0]
    /\ published = [w \in Range(workers) |-> 0]
    /\ written = [w \in Range(workers) |-> [i \in Channels |-> 0]]

\* no write_object(), close() or __exit__() call was made
NoCalls ==
    [writes |-> 0, closes |-> 0, reopened |-> FALSE, exited |-> "no",
     exc |-> "none"]

\* a JSONWriter with the default cap that nothing is written to
NoWriter ==
    /\ json_args = <<0, 1>>
    /\ writer = JSONWriter(0, 1)
    /\ json_files = [f \in {} |-> <<>>]
    /\ wlog = NoCalls

\* a JSONReader of one file without items on which no call was made
NoReader ==
    /\ source_files = [p \in Paths |-> IF p = 1 THEN Readable(0) ELSE Missing]
    /\ python = "3.7"
    /\ reader = JSONReader(source_files)
    /\ rlog = NoReads

\* no analysis result was retrieved and the assignment loop has not run
NoKeyphrases ==
    /\ all_topics_keyphrases = <<>>
    /\ topics_assigned = 0
    /\ assigned_keyphrases = {}
    /\ assigned_topic_keyphrases = <<>>

Constructed ==
    /\ workers \in WorkerCounts
    /\ buffer_size \in BufferSizes
    /\ Unstarted
    /\ NoWriter
    /\ NoReader
    /\ NoKeyphrases

Init ==
    /\ Constructed
    /\ logger = TRUE
    /\ unsized = FALSE
    /\ faults = 0

\* the same pool on a disk or with shard files that can fail: load() or
\* dump() of the merge may raise, MaxFaults times
InitFaults ==
    /\ Constructed
    /\ logger = TRUE
    /\ unsized = FALSE
    /\ faults = MaxFaults

\* the same pool around a transformation that may return anything
InitUnsized ==
    /\ Constructed
    /\ logger = TRUE
    /\ unsized = TRUE
    /\ faults = 0

\* the same pool built with or without the logger argument (default None)
InitAnyLogger ==
    /\ Constructed
    /\ logger \in BOOLEAN
    /\ unsized = FALSE
    /\ faults = 0

\* worker counts a caller can pass to the constructor, which checks nothing
WorkerArguments == {-1, 1}

\* a JSONWriter after its constructor ran on an empty output directory,
\* beside a pool controller that was constructed and is not started
InitWriter ==
    /\ workers \in WorkerArguments
    /\ buffer_size \in BufferSizes
    /\ logger = TRUE
    /\ unsized = FALSE
    /\ faults = 0
    /\ Unstarted
    /\ json_args \in CapArguments \X BufferArguments
    /\ writer = JSONWriter(json_args[1], json_args[2])
    /\ json_files = [f \in {} |-> <<>>]
    /\ wlog = NoCalls
    /\ NoReader
    /\ NoKeyphrases

Next ==
    \/ Start
    \/ \E u \in Units \cup {None} : Feed(u)
    \/ FeedResume
    \/ Close
    \/ ClosePut
    \/ CloseJoin
    \/ CloseTruncate
    \/ CloseMerge
    \/ CloseReturn
    \/ \E w \in Range(workers) : WorkerLoop(w)
    \/ \E w \in Range(workers) : WorkerPut(w)

\* the pool as the scripts build it (filter.py:154, preprocess.py:194,
\* keyphrase.py:240): a logger, at least one worker (filter.py:49), a
\* transformation that raises, returns None or returns a list
Spec == Init /\ [][Next]_vars

SpecFaults == InitFaults /\ [][Next]_vars

SpecUnsized == InitUnsized /\ [][Next]_vars

SpecAnyLogger == InitAnyLogger /\ [][Next]_vars

\* the worker ids of the largest pool
WorkerIds == UNION {Range(n) : n \in WorkerCounts}

\* the steps no caller decides on: a worker process that can run does run,
\* and a close() or a feed() that is not blocked goes on
Scheduling ==
    /\ \A w \in WorkerIds : WF_vars(w \in Range(workers) /\ WorkerLoop(w))
    /\ \A w \in WorkerIds : WF_vars(w \in Range(workers) /\ WorkerPut(w))
    /\ WF_vars(FeedResume)
    /\ WF_vars(ClosePut)
    /\ WF_vars(CloseJoin)
    /\ WF_vars(CloseTruncate)
    /\ WF_vars(CloseMerge)
    /\ WF_vars(CloseReturn)

\* the pool of the scripts under a fair scheduler
SpecFair == Init /\ [][Next]_vars /\ Scheduling

NextWriter ==
    \/ WriteObject
    \/ WriterClose
    \/ \E error \in BOOLEAN : WriterExit(error)

SpecWriter == InitWriter /\ [][NextWriter]_vars

\* a pool controller that is constructed and not started and a writer that
\* nothing is written to
Idle ==
    /\ workers = 1
    /\ buffer_size = -1
    /\ logger = TRUE
    /\ unsized = FALSE
    /\ faults = 0
    /\ Unstarted
    /\ NoWriter

\* the files a reader can be given: none, or a root array of 0 .. MaxObjects
\* items
SourceFiles == {Missing} \cup {Readable(n) : n \in 0 .. MaxObjects}

\* the files that exist and cannot be read to their end
FailingFiles ==
    {Failing(n, e, then) : n \in 0 .. MaxObjects, e \in 1 .. MaxObjects + 1,
                           then \in {"finished", "failing"}}

\* a JSONReader after its constructor ran on MaxPaths paths
InitReader ==
    /\ Idle
    /\ source_files \in [Paths -> SourceFiles]
    /\ python = "3.7"
    /\ reader = JSONReader(source_files)
    /\ rlog = NoReads
    /\ NoKeyphrases

\* the same reader when one of its files cannot be read to its end
InitReaderFaults ==
    /\ Idle
    /\ source_files \in [Paths -> SourceFiles \cup FailingFiles]
    /\ Cardinality({p \in Paths : source_files[p].error_at > 0}) = 1
    /\ \A p \in Paths : source_files[p].error_at <= source_files[p].objects + 1
    /\ python = "3.7"
    /\ reader = JSONReader(source_files)
    /\ rlog = NoReads
    /\ NoKeyphrases

\* the same reader, of readable files, under either interpreter
InitReaderBatch ==
    /\ Idle
    /\ source_files \in [Paths -> SourceFiles]
    /\ python \in Pythons
    /\ reader = JSONReader(source_files)
    /\ rlog = NoReads
    /\ NoKeyphrases

NextReader ==
    \/ ReaderIter
    \/ ReaderNext
    \/ ReaderRead

NextReaderBatch ==
    \/ ReaderIter
    \/ ReaderNext
    \/ \E batch_size \in 0 .. MaxBatch : ReadBatch(batch_size)

SpecReader == InitReader /\ [][NextReader]_vars

SpecReaderFaults == InitReaderFaults /\ [][NextReader]_vars

SpecReaderBatch == InitReaderBatch /\ [][NextReaderBatch]_vars

\* the state of infer_keyphrases when the analysis results of MaxTopics
\* topics were retrieved (lines 285-287) and the assignment starts
InitKeyphrase ==
    /\ Idle
    /\ NoReader
    /\ all_topics_keyphrases \in [Topics -> RankedLists]
    /\ topics_assigned = 0
    /\ assigned_keyphrases = {}
    /\ assigned_topic_keyphrases = <<>>

NextKeyphrase == AssignKeyphrase

SpecKeyphrase == InitKeyphrase /\ [][NextKeyphrase]_vars

(* ------------------------------ claims --------------------------------- *)
\* close() of a forked pool has returned its counts and nothing was called
\* since (close() on a controller that is not started returns an empty list)
PoolClosed ==
    /\ ctl = "idle"
    /\ ret.op = "close"
    /\ ret.exc = "none"
    /\ Len(ret.value) > 0

\* the units of this pool whose transformation returns exactly n values
Returning(n) == {u \in fed : u.res = "list" /\ u.n = n}

Raising == {u \in fed : u.res = "raise"}

\* how often a value occurs in a sequence
Count(seq, v) == Cardinality({k \in 1 .. Len(seq) : seq[k] = v})

\* the records the calls made by worker w produced for channel i
Produced(w, i) ==
    {<<c[2].id, i>> : c \in {d \in calls : d[1] = w /\ d[2].res = "list"
                                           /\ i < Min(NumChannels, d[2].n)}}

\* C1. Work conservation: when every unit fed to a pool returns exactly one
\* value, on channel 0, the channel-0 count close() returns is the number of
\* units fed.
WorkConservation ==
    (PoolClosed /\ Returning(1) = fed) => ret.value[1] = Cardinality(fed)

\* C1 witness: a pool of two workers that both transformed units was fed
\* MaxUnits one-value units and closed.
WorkConservationWitness ==
    /\ PoolClosed
    /\ Returning(1) = fed
    /\ Cardinality(fed) = MaxUnits
    /\ ret.value[1] = MaxUnits
    /\ {c[1] : c \in calls} = {0, 1}

\* the units of this pool that wait in the input queue
Queued(u) == Count(input_queue, u)

\* C2. Exactly-once delivery: at every moment each unit feed() accepted is
\* either still in the input queue, once, or was passed to the transformation
\* once, by one worker; no unit is called twice or by two workers, whether or
\* not its call raised.
ExactlyOnce ==
    /\ \A u \in fed : Queued(u) + ncalls[u.id] = 1
    /\ \A u \in fed : Cardinality({c \in calls : c[2].id = u.id}) = ncalls[u.id]
    /\ \A k \in Range(MaxUnits) : ncalls[k] <= 1

\* C2 witness: a worker has called a unit that raised, a second worker has
\* called the next unit, and nothing is left in the queue.
ExactlyOnceWitness ==
    /\ {c[1] : c \in calls} = {0, 1}
    /\ \E c \in calls : c[2].res = "raise"
    /\ Cardinality(fed) = MaxUnits
    /\ input_queue = <<>>

Elems(seq) == {seq[k] : k \in 1 .. Len(seq)}

\* every record held in a worker buffer, a shard file or a final file
Stored ==
    UNION ({Elems(proc[w].worker_buffers[i]) : w \in Range(workers), i \in Channels}
           \cup {Elems(temp_files[f]) : f \in DOMAIN temp_files}
           \cup {Elems(out_files[i]) : i \in Channels})

\* C3. Isolation: a unit whose transformation raised left an ERROR record in
\* the log and no record in any buffer or file, and the worker that called it
\* lives on; no worker has died; while a controller call is in progress some
\* process can take a step; and a pool fed only one-value and raising units
\* returns, for channel 0, the number of units fed minus the raising ones.
Isolation ==
    /\ \A c \in calls :
          c[2].res = "raise" =>
             /\ c[2].id \in logged
             /\ \A i \in Channels : <<c[2].id, i>> \notin Stored
             /\ proc[c[1]].pc \in {"get", "put", "exit"}
    /\ \A w \in Range(workers) : proc[w].pc # "dead"
    /\ ctl # "idle" => ENABLED Next
    /\ (PoolClosed /\ Returning(1) \cup Raising = fed) =>
          ret.value[1] = Cardinality(fed) - Cardinality(Raising)

\* C3 witness: a closed pool was fed one raising unit and MaxUnits - 1
\* one-value units, counts MaxUnits - 1, and the worker that met the
\* exception took a later unit.
IsolationWitness ==
    /\ PoolClosed
    /\ Cardinality(Raising) = 1
    /\ Cardinality(Returning(1)) = MaxUnits - 1
    /\ ret.value[1] = MaxUnits - 1
    /\ \E c \in calls, d \in calls :
          c[1] = d[1] /\ c[2].res = "raise" /\ d[2].id > c[2].id

\* C4. Backpressure: the input queue never holds more than QueueBound items;
\* a feed() that found it full waits with its unit outside the queue and can
\* go on exactly when the queue has room; every unit for which feed()
\* returned is in the queue or was passed to the transformation, and all of
\* them were once close() has returned.
Backpressure ==
    /\ Len(input_queue) <= QueueBound
    /\ ctl = "feed" =>
          /\ pending # None
          /\ pending \notin fed
          /\ Queued(pending) = 0
          /\ ncalls[pending.id] = 0
          /\ (ENABLED FeedResume) <=> (Len(input_queue) < QueueBound)
    /\ \A u \in fed : Queued(u) + ncalls[u.id] >= 1
    /\ PoolClosed => \A u \in fed : ncalls[u.id] >= 1

\* C4 witness: a feed() is blocked on a full queue after QueueBound units
\* were accepted.
BackpressureWitness ==
    /\ ctl = "feed"
    /\ Len(input_queue) = QueueBound
    /\ Cardinality(fed) >= QueueBound

\* C5. Restart protection: start() on a started controller raises
\* ProcessError and changes neither the state dict, nor the worker processes,
\* nor the queues, nor the shard files.
RestartProtection ==
    [][(Start /\ state.alive) =>
          /\ ret'.op = "start"
          /\ ret'.exc = "ProcessError"
          /\ UNCHANGED <<state, proc, input_queue, output_queue, temp_files,
                         gen, ctl>>]_vars

\* C5 witness: start() has raised ProcessError on a pool of two workers that
\* are both waiting for input.
RestartProtectionWitness ==
    /\ ret.op = "start"
    /\ ret.exc = "ProcessError"
    /\ state.alive
    /\ Len(state.processes) = 2
    /\ \A w \in Range(workers) : proc[w].pc = "get"

\* C6. feed() outside the running state raises ProcessError, feed(None) on a
\* running controller raises ValueError; either way the queue, the state
\* dict and the workers stay as they were.
FeedRejects ==
    [][\A u \in Units \cup {None} :
          (Feed(u) /\ (~state.alive \/ u = None)) =>
             /\ ret'.op = "feed"
             /\ ret'.exc = IF state.alive THEN "ValueError" ELSE "ProcessError"
             /\ UNCHANGED <<state, proc, input_queue, output_queue, ctl,
                            pending, fed>>]_vars

\* C6 witness: feed(None) has raised ValueError on a running pool whose
\* queue holds units.
FeedRejectsWitness ==
    /\ ret.op = "feed"
    /\ ret.exc = "ValueError"
    /\ state.alive
    /\ Len(input_queue) > 0

RECURSIVE SumTo(_, _)
\* f[0] + ... + f[n-1]
SumTo(f, n) == IF n = 0 THEN 0 ELSE f[n - 1] + SumTo(f, n - 1)

\* the None values in the input queue plus those the workers took
SentinelsOut == Count(input_queue, None) + SumTo(sentinels, workers)

\* close() has joined every process of the pool
AllJoined ==
    \/ ctl = "close_merge"
    \/ ctl = "close_join" /\ idx = Len(state.processes)

\* C7. Sentinel protocol: only close() puts None values, one per worker and
\* all of them before the first join; a worker takes at most one None and is
\* never back at get() after it; once every worker is joined each has taken
\* one None and none is left in the input queue.
SentinelProtocol ==
    /\ \A w \in Range(workers) :
          /\ sentinels[w] <= 1
          /\ sentinels[w] = 1 <=> proc[w].pc \in {"put", "exit"}
          /\ proc[w].sentinel_captured <=> sentinels[w] = 1
    /\ ctl \in {"idle", "feed"} /\ state.alive => SentinelsOut = 0
    /\ ctl = "close_put" => SentinelsOut = idx
    /\ ctl \in {"close_join", "close_merge"} =>
          SentinelsOut = state.num_of_workers
    /\ AllJoined =>
          /\ Count(input_queue, None) = 0
          /\ \A w \in Range(workers) : sentinels[w] = 1

\* C7 witness: both workers of a pool that was fed units are joined, each
\* took one None, and the input queue is empty.
SentinelProtocolWitness ==
    /\ ctl = "close_merge"
    /\ workers = 2
    /\ sentinels = [w \in Range(workers) |-> 1]
    /\ input_queue = <<>>
    /\ Cardinality(fed) > 0

\* C8. A worker publishes its shard paths, one per channel, at most once and
\* only after it took the sentinel; when it is about to publish, and ever
\* after, its buffers are empty and none of its files is open, and each shard
\* file held exactly the records the worker produced for that channel; every
\* worker has published once by the time close() has joined them all.
PublishOnce ==
    /\ \A w \in Range(workers) :
          /\ published[w] <= 1
          /\ published[w] = 1 <=> proc[w].pc = "exit"
          /\ published[w] = 1 => proc[w].sentinel_captured
          /\ Count(output_queue, worker_output_files(w, gen)) <= published[w]
          /\ proc[w].pc \in {"put", "exit"} =>
                \A i \in Channels :
                   /\ proc[w].worker_buffers[i] = <<>>
                   /\ proc[w].bf_handles[i] # "open"
          /\ proc[w].pc = "put" =>
                \A i \in Channels :
                   /\ Elems(temp_files[<<gen, w, i>>]) = Produced(w, i)
                   /\ Len(temp_files[<<gen, w, i>>]) = Cardinality(Produced(w, i))
          /\ published[w] = 1 =>
                \A i \in Channels : written[w][i] = Cardinality(Produced(w, i))
    /\ \A k \in 1 .. Len(output_queue) : Len(output_queue[k]) = NumChannels
    /\ AllJoined => \A w \in Range(workers) : published[w] = 1

\* C8 witness: a worker with a real buffer published after the sentinel made
\* it dump a record that was still buffered.
PublishOnceWitness ==
    /\ buffer_size > 1
    /\ \E w \in Range(workers) :
          /\ published[w] = 1
          /\ written[w][0] = 1
          /\ Len(output_queue) > 0

NoLossNoDuplicate ==
    PoolClosed =>
       \A i \in Channels :
          /\ Elems(out_files[i]) = UNION {Produced(w, i) : w \in Range(workers)}
          /\ Len(out_files[i]) = Cardinality(Elems(out_files[i]))

\* C10 witness: the final file of channel 0 holds the records of units
\* 0 .. MaxUnits-1, produced by two workers.
NoLossNoDuplicateWitness ==
    /\ PoolClosed
    /\ Elems(out_files[0]) = {<<k, 0>> : k \in Range(MaxUnits)}
    /\ \A w \in Range(workers) : Produced(w, 0) # {}
    /\ workers = 2

\* a shard file whose path its worker has put on the result-location queue
PublishedShards ==
    {f \in DOMAIN temp_files : f[1] = gen /\ published[f[2]] > 0}

\* C11. Once close() has returned, no shard file a worker published is left,
\* whether or not all of its records were carried into the final file.
ShardsDeleted ==
    (ctl = "idle" /\ ret.op = "close" /\ ret.exc = "none") =>
       PublishedShards = {}

\* the records the workers wrote to their shard files of channel i
WrittenTo(i) == SumTo([w \in Range(workers) |-> written[w][i]], workers)

\* C12. A failure while one record is transferred by the merge of close() is
\* confined to that record: close() does not raise, and the counts it
\* returns fall short of the records written by the failed transfers only.
MergeFailureConfined ==
    (ctl = "idle" /\ ret.op = "close") =>
       /\ ret.exc = "none"
       /\ \A i \in 1 .. Len(ret.value) :
             ret.value[i] >= WrittenTo(i - 1) - (MaxFaults - faults)

\* the records held for channel i on the way of worker w: its buffer, its
\* shard file, the final file
StoredIn(w, i) ==
    Elems(proc[w].worker_buffers[i])
    \cup (IF <<gen, w, i>> \in DOMAIN temp_files
          THEN Elems(temp_files[<<gen, w, i>>]) ELSE {})
    \cup Elems(out_files[i])

\* C13. Channel fan-out: of a result with p values, value j is held for
\* channel i exactly when i = j and j < min(NumChannels, p): values beyond
\* the declared channels go nowhere, a channel with index >= p gets nothing
\* for the unit, and the worker does not fail.
FanOut ==
    \A c \in calls :
       c[2].res = "list" =>
          /\ proc[c[1]].pc # "dead"
          /\ \A i \in Channels, j \in Range(MaxValues) :
                (<<c[2].id, j>> \in StoredIn(c[1], i)) <=>
                   (i = j /\ j < Min(NumChannels, c[2].n))

\* C13 witness: a closed pool transformed a unit with one value and a unit
\* with more values than channels; the last channel holds one record only.
FanOutWitness ==
    /\ PoolClosed
    /\ \E c \in calls : c[2].res = "list" /\ c[2].n = 1
    /\ \E c \in calls : c[2].res = "list" /\ c[2].n = MaxValues
    /\ Len(out_files[0]) >= 2
    /\ Len(out_files[NumChannels - 1]) = 1

\* the units this pool transformed into a falsy or empty result
Falsy ==
    {c[2] : c \in {d \in calls : \/ d[2].res \in {"none", "unsized"}
                                 \/ d[2].res = "list" /\ d[2].n = 0}}

\* C14. No unit ends a worker: whatever the transformation did, no worker
\* has died, a falsy or empty result left no record anywhere, and by the
\* time close() has joined the workers each took its sentinel and published.
NoUnitTerminates ==
    /\ \A w \in Range(workers) : proc[w].pc # "dead"
    /\ \A u \in Falsy, i \in Channels : <<u.id, i>> \notin Stored
    /\ AllJoined =>
          \A w \in Range(workers) : sentinels[w] = 1 /\ published[w] = 1

\* close() has returned and nothing was called since
CloseReturned == ctl = "idle" /\ ret.op = "close" /\ ret.exc = "none"

\* C15. After close() has returned the controller is un-started: a feed()
\* raises ProcessError and enqueues nothing, and a start() succeeds with
\* `workers` new processes, empty queues and new, empty shard files.
ClosedRestarts ==
    [][CloseReturned =>
          /\ state = StateNone
          /\ \A u \in Units \cup {None} :
                Feed(u) => /\ ret'.exc = "ProcessError"
                           /\ UNCHANGED <<state, input_queue>>
          /\ Start =>
                /\ ret' = Ret("start", "none", <<>>)
                /\ state'.alive
                /\ state'.processes = [k \in 1 .. workers |-> k - 1]
                /\ input_queue' = <<>>
                /\ output_queue' = <<>>
                /\ proc' = [w \in Range(workers) |-> NewWorker(buffer_size)]
                /\ gen' # gen
                /\ \A w \in Range(workers), i \in Channels :
                      temp_files'[<<gen', w, i>>] = <<>>]_vars

\* C15 witness: a pool that transformed units was closed and the controller
\* was started again; both new workers wait for input.
ClosedRestartsWitness ==
    /\ gen = 2
    /\ ret = Ret("start", "none", <<>>)
    /\ state.alive
    /\ workers = 2
    /\ \A w \in Range(workers) : proc[w].pc = "get"
    /\ Len(out_files[0]) = MaxUnits
    /\ input_queue = <<>>

\* C16. start() on a controller that is not started spawns `workers`
\* processes with the ids 0 .. workers-1 and leaves the controller running,
\* with a logger and without: start() raises nothing but the ProcessError of
\* a second start, and a running controller has its `workers` processes.
StartSpawns ==
    /\ ret.op = "start" => ret.exc \in {"none", "ProcessError"}
    /\ (ret.op = "start" /\ ret.exc = "none") => state.alive
    /\ state.alive =>
          /\ state.processes = [k \in 1 .. workers |-> k - 1]
          /\ \A w \in Range(workers) : proc[w].pc # "none"

ObjectsIn(text) == SelectSeq(text, LAMBDA t : t[1] = "obj")

\* ceil(n / k)
Ceil(n, k) == (n + k - 1) \div k

\* the writer took wlog.writes objects and was then closed, and nothing was
\* written after a close(); no with-block around it raised
WrittenThenClosed ==
    /\ writer.exc = "none"
    /\ wlog.closes > 0 /\ ~wlog.reopened
    /\ wlog.exited # "error"

\* C18. Sharding: a writer with a cap k > 0 never lets a file hold more than
\* k objects, for every buffer size; after N writes and close() it has
\* created ceil(N / k) files, which are all the files there are, each holding
\* the next k objects in order and the last one the rest.
Sharding ==
    (writer.exc = "none" /\ writer.max_file_objects_amount > 0) =>
       LET k == writer.max_file_objects_amount
           N == wlog.writes
           files == writer.created_files
       IN  /\ \A f \in DOMAIN json_files : Len(ObjectsIn(json_files[f])) <= k
           /\ WrittenThenClosed =>
                 /\ Len(files) = Ceil(N, k)
                 /\ DOMAIN json_files = {files[j] : j \in 1 .. Len(files)}
                 /\ Cardinality(DOMAIN json_files) = Ceil(N, k)
                 /\ \A j \in 1 .. Len(files) :
                       ObjectsIn(json_files[files[j]]) =
                          [n \in 1 .. (IF j < Len(files) THEN k
                                       ELSE N - k * (j - 1)) |->
                             JsonString(k * (j - 1) + n)]

\* C18 witness: a writer whose buffer is larger than its cap of 2 took 3
\* objects and was closed: two files, of 2 objects and of 1.
ShardingWitness ==
    /\ WrittenThenClosed
    /\ writer.max_file_objects_amount = 2
    /\ writer.buffer_size = 3
    /\ wlog.writes = 3
    /\ Len(writer.created_files) = 2
    /\ Len(ObjectsIn(json_files[writer.created_files[2]])) = 1

\* the per-file cap of the scenario: one record less than the units fed
MaxObjectsPerFile == MaxUnits - 1

\* the records all workers produced for channel i
ProducedFor(i) == UNION {Produced(w, i) : w \in Range(workers)}

Uncapped == writer.exc = "none" /\ writer.max_file_objects_amount <= 0

\* C20. Uncapped single file: a writer without a cap never has more than
\* one file, named <prefix>.<extension>; after N >= 1 writes and close() that
\* file exists and holds the N objects in order, after close() with no write
\* there is no file.
UncappedSingleFile ==
    Uncapped =>
       /\ DOMAIN json_files \subseteq {<<"prefix", "extension">>}
       /\ (WrittenThenClosed /\ wlog.writes >= 1) =>
             /\ writer.created_files = << <<"prefix", "extension">> >>
             /\ DOMAIN json_files = {<<"prefix", "extension">>}
             /\ ObjectsIn(json_files[<<"prefix", "extension">>]) =
                   [n \in 1 .. wlog.writes |-> JsonString(n)]
       /\ (WrittenThenClosed /\ wlog.writes = 0) =>
             /\ writer.created_files = <<>>
             /\ DOMAIN json_files = {}

\* C20 witness: a writer without a cap and with a buffer of 3 took MaxWrites
\* objects and was closed; its one file holds them all.
UncappedSingleFileWitness ==
    /\ Uncapped
    /\ WrittenThenClosed
    /\ writer.buffer_size = 3
    /\ wlog.writes = MaxWrites
    /\ Len(ObjectsIn(json_files[<<"prefix", "extension">>])) = MaxWrites

\* C20 as stated: for every N, zero included, the output of a writer without
\* a cap is exactly one file after close().
AlwaysOneFile ==
    (Uncapped /\ WrittenThenClosed) =>
       /\ Len(writer.created_files) = 1
       /\ Cardinality(DOMAIN json_files) = 1


\* C21. Idempotent close: a close() of a writer that was closed before, with
\* no write in between, whether called or made by the exit of a with-block,
\* changes no file, nor the list of created files, nor the part index, and
\* leaves the buffer empty and no file open.
IdempotentClose ==
    [][(wlog.closes > 0 /\ wlog'.closes = wlog.closes + 1) =>
          /\ json_files' = json_files
          /\ writer'.created_files = writer.created_files
          /\ writer'.current_file_index = writer.current_file_index
          /\ writer' = writer]_vars

\* C21 witness: a writer with a cap took 3 objects and was closed twice:
\* its two files are there and the index is that of the next part.
IdempotentCloseWitness ==
    /\ wlog.closes = 2
    /\ wlog.writes = 3
    /\ writer.max_file_objects_amount = 2
    /\ Len(writer.created_files) = 2
    /\ writer.current_file_index = 3
    /\ Cardinality(DOMAIN json_files) = 2

\* C22. Exit of a with-block: after an exit with an error no file the writer
\* created is left, and the writer was not closed by the exit; after a
\* normal exit the writer is closed, nothing is buffered, no file is open
\* and every file it created is there, ended.
ScopedExit ==
    /\ wlog.exited = "error" =>
          /\ \A j \in 1 .. Len(writer.created_files) :
                writer.created_files[j] \notin DOMAIN json_files
          /\ DOMAIN json_files = {}
    /\ wlog.exited = "closed" =>
          /\ wlog.closes > 0
          /\ writer.buffer = <<>>
          /\ ~writer.current_file_handle
          /\ \A j \in 1 .. Len(writer.created_files) :
                /\ writer.created_files[j] \in DOMAIN json_files
                /\ LET text == json_files[writer.created_files[j]]
                   IN  text[Len(text)] = ArrayClose
          /\ wlog.writes > 0 => Len(writer.created_files) > 0

\* C22 witness: a with-block raised after its writer had created two files,
\* one of them still open, and none of them is left.
ScopedExitWitness ==
    /\ wlog.exited = "error"
    /\ Len(writer.created_files) = 2
    /\ writer.current_file_handle
    /\ DOMAIN json_files = {}

\* C23. Names: with a cap the j-th file a writer created is named
\* <prefix>.part<j>.<extension>, j from 1, and the index of the next file is
\* one more than the number of files ended; without a cap every file is
\* named <prefix>.<extension>; created_files holds, in creation order, the
\* paths of the files there are, and no other unless a with-block raised.
Naming ==
    writer.exc = "none" =>
       LET files == writer.created_files
           cap == writer.max_file_objects_amount
       IN  /\ cap > 0 =>
                 /\ \A j \in 1 .. Len(files) :
                       files[j] = <<"prefix", "part", j, "extension">>
                 /\ writer.current_file_index =
                       Len(files) + (IF writer.current_file_handle THEN 0 ELSE 1)
           /\ cap <= 0 =>
                 \A j \in 1 .. Len(files) : files[j] = <<"prefix", "extension">>
           /\ writer.current_file_handle =>
                 writer.current_file_path = files[Len(files)]
           /\ DOMAIN json_files \subseteq {files[j] : j \in 1 .. Len(files)}
           /\ wlog.exited # "error" =>
                 DOMAIN json_files = {files[j] : j \in 1 .. Len(files)}

\* C23 witness: a writer with the cap 2 and the buffer size 1 rolled over
\* once and has its second file open.
NamingWitness ==
    /\ writer.exc = "none"
    /\ writer.max_file_objects_amount = 2
    /\ writer.buffer_size = 1
    /\ writer.created_files =
          [j \in 1 .. 2 |-> <<"prefix", "part", j, "extension">>]
    /\ writer.current_file_handle
    /\ writer.current_file_index = 2

\* text is one root array: one opening bracket, at least one object, one
\* separator between two objects, one closing bracket
RootArray(text) ==
    /\ Len(text) >= 3
    /\ Len(text) % 2 = 1
    /\ text[1] = ArrayOpen
    /\ text[Len(text)] = ArrayClose
    /\ \A n \in 2 .. Len(text) - 1 :
          IF n % 2 = 0 THEN text[n][1] = "obj" ELSE text[n] = Separator

\* C24. After close(), with no write since, every file of a writer is one
\* root array, for every cap, buffer size and number of writes.
RootArrays ==
    (writer.exc = "none" /\ wlog.closes > 0 /\ wlog.exited # "error") =>
       /\ \A f \in DOMAIN json_files : RootArray(json_files[f])
       /\ \A j \in 1 .. Len(writer.created_files) :
             writer.created_files[j] \in DOMAIN json_files

\* C24 witness: a writer with the buffer size 1 and the cap 3 was closed
\* after MaxWrites writes: a file of three objects flushed one by one and a
\* file of the rest.
RootArraysWitness ==
    /\ writer.exc = "none"
    /\ wlog.closes > 0
    /\ wlog.writes = MaxWrites
    /\ writer.buffer_size = 1
    /\ writer.max_file_objects_amount = 3
    /\ Len(json_files[<<"prefix", "part", 1, "extension">>]) = 7
    /\ RootArray(json_files[<<"prefix", "part", 2, "extension">>])


\* the items of the file at path p, in file order
ObjectsOf(p) == [k \in 1 .. source_files[p].objects |-> Item(p, k)]

RECURSIVE Records(_)
\* the items of the files at the paths ps, file after file
Records(ps) ==
    IF Len(ps) = 0 THEN <<>> ELSE ObjectsOf(Head(ps)) \o Records(Tail(ps))

\* s is the beginning of t
IsPrefix(s, t) == Len(s) <= Len(t) /\ s = SubSeq(t, 1, Len(s))

\* C25. Construction of a reader succeeds exactly when one of the given
\* paths exists; its file_paths are then the given paths that exist, in the
\* given order; it fails with AssertionError when none exists; in either case
\* the constructor opens no file, and the reader that failed takes no call.
ReaderConstruction ==
    /\ reader.exc \in {"none", "AssertionError"}
    /\ reader.exc = "AssertionError" <=> \A p \in Paths : ~source_files[p].exists
    /\ reader.exc = "none" =>
          /\ Elems(reader.file_paths) = {p \in Paths : source_files[p].exists}
          /\ \A j \in 1 .. Len(reader.file_paths) - 1 :
                reader.file_paths[j] < reader.file_paths[j + 1]
    /\ rlog.iters = 0 => reader.file_obj = NoFile
    /\ reader.exc = "AssertionError" =>
          /\ rlog = NoReads
          /\ ~ENABLED NextReader

\* C25 witness: a reader given a path that does not exist before two that
\* do was constructed with the two and read from the first of them.
ReaderConstructionWitness ==
    /\ ~source_files[1].exists
    /\ reader.exc = "none"
    /\ reader.file_paths = <<2, 3>>
    /\ rlog.ret.raised = "none"
    /\ rlog.ret.value = Item(2, 1)

\* C26. Full pass: in the first pass over a reader, made by iter() and
\* next() or by read() on the fresh reader, every call yields the next item
\* of the concatenation of its files in path order, and StopIteration is
\* raised when, and only when, all of them were yielded.
FullPass ==
    (reader.exc = "none" /\ rlog.iters = 1) =>
       LET expected == Records(reader.file_paths)
       IN  /\ IsPrefix(rlog.yielded, expected)
           /\ rlog.ended => rlog.yielded = expected
           /\ (rlog.ret.op \in {"next", "read"} /\ ~rlog.ret.over) =>
                 /\ rlog.ret.raised \in {"none", "StopIteration"}
                 /\ rlog.ret.raised = "none" =>
                       rlog.ret.value = expected[rlog.ret.from + 1]
                 /\ rlog.ret.raised = "StopIteration" =>
                       rlog.ret.from = Len(expected)

\* C26 witness: read() calls on a fresh reader of a file of MaxObjects items,
\* a file without items and a file of one item yielded them all and then
\* raised StopIteration.
FullPassWitness ==
    /\ rlog.iters = 1
    /\ source_files[1] = Readable(MaxObjects)
    /\ source_files[2] = Readable(0)
    /\ source_files[3] = Readable(1)
    /\ rlog.ret.op = "read"
    /\ rlog.ret.raised = "StopIteration"
    /\ Len(rlog.yielded) = MaxObjects + 1

RECURSIVE RecordsRead(_)
\* the items of the files at the paths ps, file after file, without those
\* of a file from the item on that cannot be read
RecordsRead(ps) ==
    IF Len(ps) = 0 THEN <<>>
    ELSE LET f == source_files[Head(ps)]
             objects == IF f.error_at > 0
                        THEN SubSeq(ObjectsOf(Head(ps)), 1, f.error_at - 1)
                        ELSE ObjectsOf(Head(ps))
         IN  objects \o RecordsRead(Tail(ps))

\* C27. I/O error: when one file of a reader cannot be read to its end, every
\* call of the first pass returns, yielding the next item of the files that
\* can be read, or raises StopIteration after the last file: the pass yields
\* every item of each file that can be read, in order, the error is logged
\* and no other exception is raised.
SkipsFailingFile ==
    (reader.exc = "none" /\ rlog.iters = 1) =>
       LET expected == RecordsRead(reader.file_paths)
       IN  /\ IsPrefix(rlog.yielded, expected)
           /\ rlog.ended => (rlog.yielded = expected /\ rlog.errors = 1)
           /\ (rlog.ret.op \in {"next", "read"} /\ ~rlog.ret.over) =>
                 /\ rlog.ret.raised \in {"none", "StopIteration"}
                 /\ rlog.ret.raised = "none" =>
                       rlog.ret.value = expected[rlog.ret.from + 1]
                 /\ rlog.ret.raised = "StopIteration" =>
                       rlog.ret.from = Len(expected)

\* C28. Restart: a pass started after another one, whether that one was
\* completed or abandoned, yields the items from the first item of the first
\* file on, in order; a full pass after a full pass yields what that one
\* yielded.
Restart ==
    (reader.exc = "none" /\ rlog.iters >= 2) =>
       LET expected == Records(reader.file_paths)
       IN  /\ IsPrefix(rlog.yielded, expected)
           /\ rlog.ended => rlog.yielded = expected
           /\ (rlog.ended /\ ~rlog.abandoned) => rlog.yielded = rlog.prev
           /\ (rlog.ret.op = "iter" /\ rlog.ret.raised = "none") =>
                 /\ reader.file_index = 0
                 /\ reader.object_index = 0
                 /\ reader.file_obj = reader.file_paths[1]

\* C28 witness: a pass that was abandoned in its second file, after
\* MaxObjects + 1 items, was followed by a pass that yielded the first item
\* of the first file and went on to the end.
RestartWitness ==
    /\ rlog.iters = 2
    /\ rlog.abandoned
    /\ rlog.left = MaxObjects + 1
    /\ source_files[1].objects = MaxObjects
    /\ rlog.ended
    /\ Len(rlog.yielded) > MaxObjects
    /\ rlog.yielded[1] = Item(1, 1)

\* C29. read_batch(n) in a pass that has not ended returns the next n items
\* of the pass, or the items that remain when they are fewer than n, none at
\* the end, and does not raise.
BatchReturns ==
    (/\ reader.exc = "none"
     /\ rlog.iters >= 1
     /\ rlog.ret.op = "read_batch"
     /\ ~rlog.ret.over) =>
       LET expected == Records(reader.file_paths)
           from == rlog.ret.from
       IN  /\ rlog.ret.raised = "none"
           /\ Len(rlog.ret.value) <= rlog.ret.n
           /\ rlog.ret.value =
                 SubSeq(expected, from + 1, Min(from + rlog.ret.n, Len(expected)))

\* the keyphrases assigned before the j-th assignment was made
AssignedBefore(j) ==
    {assigned_topic_keyphrases[i].keyphrase : i \in 1 .. j - 1}

\* the keyphrase k alone, as an assigned keyphrase
Single(k) == <<k>>

\* C30. Keyphrase assignment: every topic the loop went through that has a
\* keyphrase in its list not assigned to a topic before it is assigned the
\* first such keyphrase of its list, the other topics are assigned nothing,
\* and no two topics are assigned the same keyphrase.
FirstAvailableKeyphrase ==
    /\ \A j \in 1 .. Len(assigned_topic_keyphrases) :
          LET e == assigned_topic_keyphrases[j]
              list == all_topics_keyphrases[e.topic]
          IN  \E n \in 1 .. Len(list) :
                 /\ e.keyphrase = Single(list[n])
                 /\ Single(list[n]) \notin AssignedBefore(j)
                 /\ \A m \in 1 .. n - 1 : Single(list[m]) \in AssignedBefore(j)
    /\ \A i, j \in 1 .. Len(assigned_topic_keyphrases) :
          i # j => /\ assigned_topic_keyphrases[i].keyphrase #
                         assigned_topic_keyphrases[j].keyphrase
                   /\ assigned_topic_keyphrases[i].topic #
                         assigned_topic_keyphrases[j].topic
    /\ \A topic \in 1 .. topics_assigned :
          (\E n \in 1 .. Len(all_topics_keyphrases[topic]) :
              \A j \in 1 .. Len(assigned_topic_keyphrases) :
                 assigned_topic_keyphrases[j].topic < topic =>
                    assigned_topic_keyphrases[j].keyphrase #
                       Single(all_topics_keyphrases[topic][n]))
          => \E j \in 1 .. Len(assigned_topic_keyphrases) :
                assigned_topic_keyphrases[j].topic = topic

\* the shard files of worker w of the pool forked last that are on disk
ShardsOf(w) == {f \in DOMAIN temp_files : f[1] = gen /\ f[2] = w}

\* C31. close() merges only after every worker has exited: while close()
\* creates, fills and counts the final files every worker process has ended
\* and has published its shard list, which is on the output queue with all
\* its files on disk or was taken from it and merged; and a shard file of the
\* pool is gone only if its worker has ended.
MergeAfterExit ==
    /\ ctl = "close_merge" =>
          \A w \in Range(workers) :
             /\ proc[w].pc = "exit"
             /\ published[w] = 1
             /\ IF worker_output_files(w, gen) \in Elems(output_queue)
                THEN Cardinality(ShardsOf(w)) = NumChannels
                ELSE ShardsOf(w) = {}
    /\ gen > 0 =>
          \A w \in Range(workers) :
             Cardinality(ShardsOf(w)) < NumChannels => proc[w].pc = "exit"

\* C31 witness: close() has joined two workers that both wrote records and
\* is about to drain a queue that holds the shard lists of both.
MergeAfterExitWitness ==
    /\ ctl = "close_merge"
    /\ workers = 2
    /\ Len(output_queue) = 2
    /\ \A w \in Range(workers) : Len(temp_files[<<gen, w, 0>>]) > 0

\* the records of the set S, one per unit, in the order their units were fed
Ascending(S) ==
    CHOOSE s \in [1 .. Cardinality(S) -> S] :
       \A j, k \in 1 .. Cardinality(S) : j < k => s[j][1] < s[k][1]

\* C32. Blocks: the output queue is first in, first out, and every round of
\* the merge appends to the final file of each channel the records of the
\* worker whose shard list arrived first among those still queued, all of
\* them and in the order the worker produced them, which is the order in
\* which its units were fed: the final file is one block per worker, the
\* blocks in arrival order.
BlocksInArrivalOrder ==
    [][/\ output_queue' # output_queue =>
             \/ output_queue' = <<>>
             \/ Len(output_queue) > 0 /\ output_queue' = Tail(output_queue)
             \/ \E w \in Range(workers) :
                   output_queue' = Append(output_queue, worker_output_files(w, gen))
       /\ (ctl = "close_merge" /\ output_queue' # output_queue) =>
             LET w == Head(output_queue)[1][2]
             IN  \A i \in Channels :
                    out_files'[i] = out_files[i] \o Ascending(Produced(w, i))
       /\ (ctl = "close_merge" /\ output_queue' = output_queue) =>
             out_files' = out_files]_vars

\* C32 witness: the worker that took the second unit published first: after
\* close() the final file of channel 0 holds its record before the record of
\* the first unit.
BlocksInArrivalOrderWitness ==
    /\ PoolClosed
    /\ workers = 2
    /\ Len(out_files[0]) = 2
    /\ out_files[0][1][1] > out_files[0][2][1]

\* close() was called on a running controller and has not returned
Closing == ctl \in {"close_put", "close_join", "close_merge"}

\* C33. Under fair scheduling a close() on a running controller returns:
\* from any state in which it puts sentinels, joins or merges, a state is
\* reached where it has returned its counts, every worker has ended, the
\* input queue and the output queue are empty and the controller is
\* un-started.
CloseReturns ==
    Closing ~> (/\ ctl = "idle"
                /\ ret.op = "close"
                /\ ret.exc = "none"
                /\ \A w \in Range(workers) : proc[w].pc = "exit"
                /\ input_queue = <<>>
                /\ output_queue = <<>>
                /\ state = StateNone)

\* C33 witness: close() has returned on a pool of two workers that was fed
\* MaxUnits units; both workers have ended and the queues are empty.
CloseReturnsWitness ==
    /\ ctl = "idle"
    /\ ret.op = "close"
    /\ ret.exc = "none"
    /\ workers = 2
    /\ Cardinality(fed) = MaxUnits
    /\ \A w \in Range(workers) : proc[w].pc = "exit"
    /\ input_queue = <<>>
    /\ output_queue = <<>>
    /\ state = StateNone

\* C34. A pass terminates: every call of a pass that has not ended returns
\* an item or raises StopIteration, and the pass yields no more items than
\* its files hold, so that it ends by StopIteration after at most that many
\* calls and one, also when one of the files cannot be read to its end.
PassTerminates ==
    (reader.exc = "none" /\ rlog.iters >= 1) =>
       /\ Len(rlog.yielded) <= Len(Records(reader.file_paths))
       /\ (rlog.ret.op \in {"next", "read"} /\ ~rlog.ret.over) =>
             rlog.ret.raised \in {"none", "StopIteration"}
       /\ (~rlog.ended /\ rlog.ret.op \in {"next", "read"}) =>
             rlog.calls = Len(rlog.yielded)

\* C35. Flush threshold: whenever write_object() has returned, and after
\* every other call, a writer holds fewer than buffer_size objects in its
\* buffer, for every cap, the caps smaller than the buffer size included;
\* the objects it took and does not hold are in its files, unless a
\* with-block raised.
FlushThreshold ==
    writer.exc = "none" =>
       /\ Len(writer.buffer) < writer.buffer_size
       /\ (wlog.exited # "error" /\ ~wlog.reopened) =>
             SumTo([j \in 0 .. Len(writer.created_files) - 1 |->
                      Len(ObjectsIn(json_files[writer.created_files[j + 1]]))],
                   Len(writer.created_files))
                = wlog.writes - Len(writer.buffer)

\* C35 witness: a writer with the cap 2 and the buffer size 3 has flushed,
\* two objects of the three it held, and has taken one more since: it holds
\* buffer_size - 1 objects.
FlushThresholdWitness ==
    /\ writer.exc = "none"
    /\ writer.max_file_objects_amount = 2
    /\ writer.buffer_size = 3
    /\ wlog.closes = 0
    /\ ~wlog.reopened
    /\ Len(writer.buffer) = 2
    /\ Len(writer.created_files) >= 1

\* C36. start() is all-or-nothing: when start() has raised anything but the
\* ProcessError of a controller that is started already, the controller is
\* un-started and no worker process runs: self._state is None, so that a
\* feed() raises ProcessError and a later start() forks.
StartAllOrNothing ==
    (ret.op = "start" /\ ret.exc \notin {"none", "ProcessError"}) =>
       /\ state = StateNone
       /\ NotStarted(state)
       /\ FeedError(state, None) = "ProcessError"
       /\ \A w \in Range(workers) : proc[w].pc \in {"none", "exit", "dead"}

\* the units in the input queue
UnitsQueued == {k \in 1 .. Len(input_queue) : input_queue[k] # None}

NoPathOpenedTwice ==
    writer.exc = "none" =>
       /\ \A j, k \in 1 .. Len(writer.created_files) :
             j # k => writer.created_files[j] # writer.created_files[k]
       /\ wlog.exited # "error" =>
             \A n \in 1 .. wlog.writes - Len(writer.buffer) :
                \E f \in DOMAIN json_files : JsonString(n) \in Elems(json_files[f])

\* a read() call is made when the call before it has raised StopIteration
ReadAfterEnd ==
    /\ rlog.ret.raised = "StopIteration"
    /\ rlog' # rlog
    /\ rlog'.ret.op = "read"

OneCountPerChannel ==
    [][(ctl = "close_merge" /\ ctl' = "idle" /\ ret'.exc = "none") =>
          /\ workers >= 1
          /\ ret'.op = "close"
          /\ Len(ret'.value) = NumChannels
          /\ \A i \in Channels : ret'.value[i + 1] = Len(out_files'[i])
          /\ \A i \in Channels : ProducedFor(i) = {} => ret'.value[i + 1] = 0
          /\ fed = {} => ret'.value = [j \in 1 .. NumChannels |-> 0]]_vars

\* C40 witness: a pool of two workers was started and closed with no unit
\* fed, and close() returned a 0 for every channel.
OneCountPerChannelWitness ==
    /\ ctl = "idle"
    /\ ret.op = "close"
    /\ ret.exc = "none"
    /\ workers = 2
    /\ gen >= 1
    /\ fed = {}
    /\ ret.value = [j \in 1 .. NumChannels |-> 0]

====
